---------------------------- MODULE Spec2Model ----------------------------
(***************************************************************************)
(* Model of the annotation validator (scripts/validate_annotations.py) and *)
(* of the dataset catalog (src/dataset_loader.py, class BTTDatasetLoader). *)
(*                                                                         *)
(* The validator is a script: its state is its module-level names, and pc  *)
(* is its position.  The catalog is an object: its state is self.datasets, *)
(* the annotation files on disk, and the outcome of the last call.         *)
(***************************************************************************)
EXTENDS Integers, Sequences, FiniteSets, TLC

VARIABLES
    \* ---- scripts/validate_annotations.py ----
    coco_json,            \* the input file (line 7), never written
    data,                 \* the parsed coco.json: images, annotations, categories
    anns,                 \* the annotation dicts, by reference (mutated in place)
    subset_limit,         \* line 11
    img_dict,             \* line 18
    annotations,          \* lines 21-23: references into anns
    clean_annotations,    \* line 25
    dropped_annotations,  \* line 26
    pos,                  \* the annotation the for loop handles next
    pc,                   \* "index", "slice", "loop", "done", "error"
    error,                \* the exception that ended the run, or "none"
    output_json,          \* the file written at lines 66-67
    dropped_csv,          \* the file written at lines 70-80
    \* ---- src/dataset_loader.py ----
    datasets,             \* self.datasets
    disk,                 \* the content of each dataset's coco.json
    parses,               \* how often json.load returned, per dataset
    result                \* what the last call returned or raised

vvars == <<coco_json, data, anns, subset_limit, img_dict, annotations, clean_annotations,
           dropped_annotations, pos, pc, error, output_json, dropped_csv>>
cvars == <<datasets, disk, parses, result>>
vars  == <<vvars, cvars>>

----------------------------------------------------------------------------
(* Bounds *)
MaxAnns   == 2      \* annotations in coco.json
MaxImages == 2      \* images in a dataset the catalog queries

----------------------------------------------------------------------------
(* Python values *)

\* A JSON scalar inside a bbox list: a number or a string.
Num(n) == [t |-> "num", n |-> n]
Str    == [t |-> "str", n |-> 0]

\* A value that is None, a number, or a list: what ann.get("bbox", None)
\* returns, and what subset_limit holds.
PyNone     == [t |-> "none", n |-> 0, l |-> <<>>]
PyNum(n)   == [t |-> "num",  n |-> n, l |-> <<>>]
PyList(s)  == [t |-> "list", n |-> 0, l |-> s]

\* Python truthiness of such a value: None, 0 and the empty list are falsy
\* (`if subset_limit:`, `not bbox`).
Truthy(v) ==
    CASE v.t = "none" -> FALSE
      [] v.t = "num"  -> v.n # 0
      [] v.t = "list" -> Len(v.l) > 0

NoReason == ""     \* the annotation has no "drop_reason" key

----------------------------------------------------------------------------
(* Inputs of the validator: the content of coco.json and of the image      *)
(* directory.                                                              *)

\* The files present under the image directory.
ExistingFiles == {"a.png"}

Image(id, has, name) == [id |-> id, has_file_name |-> has, file_name |-> name]

\* Image lists: none; a duplicated id whose last record has its file, and
\* a record without a "file_name" key; a duplicated id whose last record's
\* file is gone.
ImageLists ==
    { <<>>,
      <<Image(1, TRUE, "gone.png"), Image(1, TRUE, "a.png"), Image(2, FALSE, "")>>,
      <<Image(1, TRUE, "a.png"), Image(1, TRUE, "gone.png")>> }

ImageIds == {1, 2}

\* bbox values: null, a bare number, a list of the wrong length, a
\* well-formed box, boxes breaking one or two geometry rules, and
\* four-element lists with a non-numeric component.  (The key being absent
\* is has_bbox = FALSE.)
BBoxValues ==
    { PyNone,
      PyNum(5),
      PyList(<<Num(0), Num(0), Num(1)>>),
      PyList(<<Num(0), Num(0), Num(1), Num(1)>>),
      PyList(<<Num(0), Num(0), Num(0), Num(1)>>),
      PyList(<<Num(0), Num(-1), Num(1), Num(1)>>),
      PyList(<<Num(-1), Num(0), Num(1), Num(0)>>),
      PyList(<<Num(0), Num(0), Str, Num(1)>>),
      PyList(<<Str, Num(0), Num(-1), Num(1)>>) }

Annotation(id, image_id, has, bbox) ==
    [id |-> id, image_id |-> image_id, category_id |-> 1,
     has_bbox |-> has, bbox |-> bbox, drop_reason |-> NoReason]

\* The annotation lists of at most MaxAnns records; the record at position k
\* has id 10 + k.
AnnotationLists ==
    UNION { { [k \in 1..n |-> Annotation(10 + k, f[k][1], f[k][2][1], f[k][2][2])] :
              f \in [1..n -> ImageIds
                             \X ({<<TRUE, b>> : b \in BBoxValues}
                                 \cup {<<FALSE, PyNone>>})] }
            : n \in 0..MaxAnns }

\* subset_limit: None (line 11), or a number of annotations.
Limits == {PyNone} \cup {PyNum(n) : n \in 0..MaxAnns}

Categories == <<[id |-> 1, name |-> "cup"]>>

----------------------------------------------------------------------------
(* scripts/validate_annotations.py *)

Reasons == {"missing image", "missing bbox",
            "zero/negative width or height", "negative x or y"}
Exceptions == {"KeyError", "TypeError"}

\* line 18: {img["id"]: img for img in images} -- a later record with the
\* same id replaces an earlier one.
ImgIndex(images) ==
    [k \in {images[j].id : j \in DOMAIN images} |->
        images[CHOOSE j \in DOMAIN images :
                  /\ images[j].id = k
                  /\ \A m \in DOMAIN images : images[m].id = k => m <= j]]

\* lines 21-23: annotations[:subset_limit] when subset_limit is truthy.
Slice(refs, limit) ==
    IF Truthy(limit) /\ limit.n < Len(refs) THEN SubSeq(refs, 1, limit.n)
    ELSE refs

\* lines 36-37: img_entry["file_name"] raises KeyError when the key is absent.
ImageCheck(ann, index) ==
    IF ann.image_id \notin DOMAIN index THEN "missing image"
    ELSE IF ~index[ann.image_id].has_file_name THEN "KeyError"
    ELSE IF index[ann.image_id].file_name \notin ExistingFiles THEN "missing image"
    ELSE "ok"

\* line 43: `not bbox or len(bbox) != 4`; len() of a number raises TypeError.
BBoxCheck(bbox) ==
    IF ~Truthy(bbox) THEN "missing bbox"
    ELSE IF bbox.t = "num" THEN "TypeError"
    ELSE IF Len(bbox.l) # 4 THEN "missing bbox"
    ELSE "ok"

\* line 51: `w <= 0 or h <= 0`, left to right; str <= int raises TypeError.
SizeCheck(w, h) ==
    IF w.t = "str" THEN "TypeError"
    ELSE IF w.n <= 0 THEN "zero/negative width or height"
    ELSE IF h.t = "str" THEN "TypeError"
    ELSE IF h.n <= 0 THEN "zero/negative width or height"
    ELSE "ok"

\* line 55: `x < 0 or y < 0`, left to right.
OriginCheck(x, y) ==
    IF x.t = "str" THEN "TypeError"
    ELSE IF x.n < 0 THEN "negative x or y"
    ELSE IF y.t = "str" THEN "TypeError"
    ELSE IF y.n < 0 THEN "negative x or y"
    ELSE "ok"

\* line 33: ann.get("bbox", None)
GetBBox(ann) == IF ann.has_bbox THEN ann.bbox ELSE PyNone

\* lines 31-61, one pass of the loop body: a drop reason, "ok", or the
\* exception the body raises.
Verdict(ann, index) ==
    LET bbox == GetBBox(ann) IN
    IF ImageCheck(ann, index) # "ok" THEN ImageCheck(ann, index)
    ELSE IF BBoxCheck(bbox) # "ok" THEN BBoxCheck(bbox)
    ELSE IF SizeCheck(bbox.l[3], bbox.l[4]) # "ok"
         THEN SizeCheck(bbox.l[3], bbox.l[4])
    ELSE OriginCheck(bbox.l[1], bbox.l[2])

NoFile == [written |-> FALSE, images |-> <<>>, annotations |-> <<>>,
           categories |-> <<>>]

\* lines 74-80: one row of dropped_annotations.csv
CsvRow(ann) ==
    [id |-> ann.id, image_id |-> ann.image_id, category_id |-> ann.category_id,
     bbox |-> GetBBox(ann), drop_reason |-> ann.drop_reason]

\* lines 11-15: coco.json has been read.
VStart(imgs, as, limit) ==
    /\ coco_json = [images |-> imgs, annotations |-> as,
                    categories |-> Categories]
    /\ anns = as
    /\ data = [images |-> imgs, annotations |-> [k \in DOMAIN as |-> k],
               categories |-> Categories]
    /\ subset_limit = limit
    /\ img_dict = <<>>
    /\ annotations = <<>>
    /\ clean_annotations = <<>>
    /\ dropped_annotations = <<>>
    /\ pos = 1
    /\ pc = "index"
    /\ error = "none"
    /\ output_json = NoFile
    /\ dropped_csv = <<>>

VInit ==
    \E imgs \in ImageLists, as \in AnnotationLists, limit \in Limits :
        VStart(imgs, as, limit)

\* line 18
BuildIndex ==
    /\ pc = "index"
    /\ img_dict' = ImgIndex(data.images)
    /\ pc' = "slice"
    /\ UNCHANGED <<data, anns, subset_limit, annotations, clean_annotations,
                   dropped_annotations, pos, error, output_json, dropped_csv>>
    /\ UNCHANGED <<coco_json, cvars>>

\* lines 21-26
SliceAnnotations ==
    /\ pc = "slice"
    /\ annotations' = Slice(data.annotations, subset_limit)
    /\ clean_annotations' = <<>>
    /\ dropped_annotations' = <<>>
    /\ pos' = 1
    /\ pc' = "loop"
    /\ UNCHANGED <<data, anns, subset_limit, img_dict, error, output_json,
                   dropped_csv>>
    /\ UNCHANGED <<coco_json, cvars>>

\* lines 30-61: the loop body for annotations[pos]
ProcessAnnotation ==
    /\ pc = "loop"
    /\ pos <= Len(annotations)
    /\ LET r == annotations[pos]
           v == Verdict(anns[r], img_dict)
       IN  \/ /\ v \in Exceptions
              /\ pc' = "error"
              /\ error' = v
              /\ UNCHANGED <<anns, clean_annotations, dropped_annotations, pos>>
           \/ /\ v \in Reasons
              /\ anns' = [anns EXCEPT ![r].drop_reason = v]
              /\ dropped_annotations' = Append(dropped_annotations, r)
              /\ pos' = pos + 1
              /\ UNCHANGED <<clean_annotations, pc, error>>
           \/ /\ v = "ok"
              /\ clean_annotations' = Append(clean_annotations, r)
              /\ pos' = pos + 1
              /\ UNCHANGED <<anns, dropped_annotations, pc, error>>
    /\ UNCHANGED <<data, subset_limit, img_dict, annotations, output_json,
                   dropped_csv>>
    /\ UNCHANGED <<coco_json, cvars>>

\* lines 64-80: the loop is over; both files are written.
WriteOutputs ==
    /\ pc = "loop"
    /\ pos > Len(annotations)
    /\ data' = [data EXCEPT !.annotations = clean_annotations]
    /\ output_json' =
          [written |-> TRUE, images |-> data.images,
           annotations |-> [k \in DOMAIN clean_annotations |->
                               anns[clean_annotations[k]]],
           categories |-> data.categories]
    /\ dropped_csv' = [k \in DOMAIN dropped_annotations |->
                          CsvRow(anns[dropped_annotations[k]])]
    /\ pc' = "done"
    /\ UNCHANGED <<anns, subset_limit, img_dict, annotations, clean_annotations,
                   dropped_annotations, pos, error>>
    /\ UNCHANGED <<coco_json, cvars>>

----------------------------------------------------------------------------
(* Inputs of the catalog: the dataset root and the annotation files.       *)

\* The entries of base_path: two datasets, a hidden directory, a plain file,
\* and a directory without an images directory.  `hidden` is
\* name.startswith('.').
DirEntry(name, dir, hidden, coco, images) ==
    [name |-> name, is_dir |-> dir, hidden |-> hidden,
     has_coco |-> coco, has_images |-> images]

RootEntries ==
    { DirEntry("ds1", TRUE, FALSE, TRUE, TRUE),
      DirEntry("ds2", TRUE, FALSE, TRUE, TRUE),
      DirEntry(".cache", TRUE, TRUE, TRUE, TRUE),
      DirEntry("README", FALSE, FALSE, FALSE, FALSE),
      DirEntry("raw", TRUE, FALSE, TRUE, FALSE),
      DirEntry("empty", TRUE, FALSE, FALSE, TRUE) }

\* A root with a single dataset.
SmallRoot ==
    { DirEntry("ds1", TRUE, FALSE, TRUE, TRUE),
      DirEntry(".cache", TRUE, TRUE, TRUE, TRUE) }

\* The identifiers callers pass: datasets, a hidden directory, no directory.
DatasetArgs == {"ds1", "ds2", ".cache", "nope"}

NoContexts == [c \in {} |-> <<>>]

CImage(id, hasl, labels, hasc, contexts) ==
    [id |-> id, has_labels |-> hasl, labels |-> labels,
     has_contexts |-> hasc, contexts |-> contexts]

\* Image records: without labels and contexts, with a repeated label, with
\* several context categories, with a category some images lack.
CatalogImages ==
    { CImage(1, FALSE, <<>>, FALSE, NoContexts),
      CImage(2, TRUE, <<"cup">>, TRUE, "scene" :> <<"kitchen">>),
      CImage(3, TRUE, <<"cup", "cup">>, TRUE,
             ("scene" :> <<"office", "kitchen">>)
                 @@ ("lighting conditions" :> <<"bright">>)),
      CImage(4, TRUE, <<"cup", "table">>, TRUE, "scene" :> <<"office">>),
      CImage(5, TRUE, <<"table">>, TRUE,
             ("lighting conditions" :> <<"bright">>)
                 @@ ("blur effect" :> <<"motion">>)),
      CImage(6, TRUE, <<"table", "cup", "table">>, TRUE,
             ("occlusion" :> <<"partial">>) @@ ("scene" :> <<>>)) }

\* The content of a coco.json: text json.load parses into a collection, or
\* text it rejects.
File(images) == [parses |-> TRUE, images |-> images, categories |-> Categories]
Corrupt == [parses |-> FALSE, images |-> <<>>, categories |-> <<>>]

ImageSeqs(n) == UNION { [1..k -> CatalogImages] : k \in 0..n }

\* The files a dataset's coco.json is rewritten to while the catalog lives.
Rewrites ==
    { Corrupt,
      File(<<>>),
      File(<<CImage(2, TRUE, <<"cup">>, TRUE, "scene" :> <<"kitchen">>)>>),
      File(<<CImage(4, TRUE, <<"cup", "table">>, TRUE, "scene" :> <<"office">>),
             CImage(1, FALSE, <<>>, FALSE, NoContexts)>>) }

\* context_filters arguments
ContextFilters ==
    { NoContexts,
      "scene" :> <<"kitchen">>,
      "scene" :> <<"kitchen", "office">>,
      ("scene" :> <<"kitchen">>) @@ ("lighting conditions" :> <<"bright">>),
      "scene" :> <<>>,
      "blur effect" :> <<"motion">> }

\* labels arguments
LabelLists ==
    { <<>>, <<"cup">>, <<"table">>, <<"cup", "table">>, <<"table", "cup">>,
      <<"cup", "cup">>, <<"bottle">> }

----------------------------------------------------------------------------
(* src/dataset_loader.py *)

Range(s) == {s[k] : k \in DOMAIN s}

\* 'data': None
NoData == [present |-> FALSE, images |-> <<>>, categories |-> <<>>]

\* json.load(f) of a file that parses
Parsed(file) ==
    [present |-> TRUE, images |-> file.images, categories |-> file.categories]

\* lines 40-51: the subdirectories that are datasets, each with its entry.
Discover(entries) ==
    [n \in {e.name : e \in {x \in entries :
                               /\ x.is_dir /\ ~x.hidden
                               /\ x.has_coco /\ x.has_images}} |->
        [annotations_path |-> <<n, "coco.json">>,
         images_path |-> <<n, "images">>,
         loaded |-> FALSE,
         data |-> NoData]]

\* lines 67-75: what load_dataset raises, or "ok"
LoadOutcome(ds, files, d) ==
    IF d \notin DOMAIN ds THEN "ValueError"
    ELSE IF ~ds[d].loaded /\ ~files[d].parses THEN "JSONDecodeError"
    ELSE "ok"

\* load_dataset without line 73: the collection is stored, the flag is not set.
AfterLoadFlagNotSet(ds, files, d) ==
    IF d \in DOMAIN ds /\ ~ds[d].loaded /\ files[d].parses
    THEN [ds EXCEPT ![d].data = Parsed(files[d])]
    ELSE ds

\* lines 70-73: self.datasets after load_dataset(d)
AfterLoad(ds, files, d) ==
    IF LoadOutcome(ds, files, d) = "ok" /\ ~ds[d].loaded
    THEN [ds EXCEPT ![d].data = Parsed(files[d]), ![d].loaded = TRUE]
    ELSE ds

\* json.load returned once more
AfterLoadParses(ds, files, d) ==
    IF LoadOutcome(ds, files, d) = "ok" /\ ~ds[d].loaded
    THEN [parses EXCEPT ![d] = @ + 1]
    ELSE parses

\* img.get('labels', []) and img.get('contexts', {})
GetLabels(img) == IF img.has_labels THEN img.labels ELSE <<>>
GetContexts(img) == IF img.has_contexts THEN img.contexts ELSE NoContexts
\* contexts.get(context_type, [])
GetValues(contexts, ct) == IF ct \in DOMAIN contexts THEN contexts[ct] ELSE <<>>

\* line 134: label_counts[label] = label_counts.get(label, 0) + 1
Bump(counts, label) ==
    IF label \in DOMAIN counts THEN [counts EXCEPT ![label] = @ + 1]
    ELSE counts @@ (label :> 1)

\* lines 133-134, over one image's labels
RECURSIVE CountLabels(_, _)
CountLabels(labels, counts) ==
    IF labels = <<>> THEN counts
    ELSE CountLabels(Tail(labels), Bump(counts, Head(labels)))

\* lines 131-134, over the images
RECURSIVE CountImages(_, _)
CountImages(images, counts) ==
    IF images = <<>> THEN counts
    ELSE CountImages(Tail(images), CountLabels(GetLabels(Head(images)), counts))

\* line 120: {cat['name']: cat['id'] for cat in categories}
CatIndex(cats) ==
    [n \in {cats[j].name : j \in DOMAIN cats} |->
        cats[CHOOSE j \in DOMAIN cats :
                /\ cats[j].name = n
                /\ \A m \in DOMAIN cats : cats[m].name = n => m <= j].id]

\* lines 140-143: the values seen under one context category
ValuesUnder(images, ct) ==
    UNION { Range(GetValues(GetContexts(images[k]), ct)) : k \in DOMAIN images }

NoStats == [num_images |-> 0, num_categories |-> 0,
            categories |-> [c \in {} |-> 0], context_types |-> {},
            scene_types |-> {}, lighting_conditions |-> {},
            blur_effects |-> {}, occlusion_types |-> {},
            label_distribution |-> [c \in {} |-> 0]]

\* lines 119-155
Stats(coll) ==
    [num_images |-> Len(coll.images),
     num_categories |-> Cardinality(DOMAIN CatIndex(coll.categories)),
     categories |-> CatIndex(coll.categories),
     context_types |->
        UNION { DOMAIN GetContexts(coll.images[k]) : k \in DOMAIN coll.images },
     scene_types |-> ValuesUnder(coll.images, "scene"),
     lighting_conditions |-> ValuesUnder(coll.images, "lighting conditions"),
     blur_effects |-> ValuesUnder(coll.images, "blur effect"),
     occlusion_types |-> ValuesUnder(coll.images, "occlusion"),
     label_distribution |-> CountImages(coll.images, [c \in {} |-> 0])]

\* The filter with `break` on the first category that matches: one matching
\* category is enough.
ContextMatchAnyCategory(img, filters) ==
    \E ct \in DOMAIN filters :
        \E k \in DOMAIN filters[ct] :
            filters[ct][k] \in Range(GetValues(GetContexts(img), ct))

\* lines 173-180: match stays True
ContextMatch(img, filters) ==
    \A ct \in DOMAIN filters :
        \E k \in DOMAIN filters[ct] :
            filters[ct][k] \in Range(GetValues(GetContexts(img), ct))

\* The filter with any() in place of issubset: one requested label is enough.
LabelMatchAnyLabel(img, labels) ==
    Range(labels) \cap Range(GetLabels(img)) # {}

\* lines 202-203
LabelMatch(img, labels) == Range(labels) \subseteq Range(GetLabels(img))

\* What a call returned or raised.
Result(op, d, kind) ==
    [op |-> op, dataset_id |-> d, kind |-> kind, available |-> {},
     data |-> NoData, stats |-> NoStats, images |-> <<>>,
     context_filters |-> NoContexts, labels |-> <<>>]

\* The ValueError of line 89, which names no dataset, in place of line 68's.
RaisedWithoutList(op, d) == Result(op, d, LoadOutcome(datasets, disk, d))

\* line 68: the ValueError names list_datasets(); any other failure of
\* load_dataset propagates as it is.
Raised(op, d) ==
    IF LoadOutcome(datasets, disk, d) = "ValueError"
    THEN [Result(op, d, "ValueError") EXCEPT !.available = DOMAIN datasets]
    ELSE Result(op, d, LoadOutcome(datasets, disk, d))

\* lines 31-33: the state after BTTDatasetLoader(base_path), base_path
\* holding `entries` and the annotation files being drawn from `files`.
CInit(entries, files) ==
    /\ datasets = Discover(entries)
    /\ disk \in [DOMAIN Discover(entries) -> files]
    /\ parses = [d \in DOMAIN Discover(entries) |-> 0]
    /\ result = Result("init", "", "ok")

\* lines 57-75
LoadDataset(d) ==
    /\ datasets' = AfterLoad(datasets, disk, d)
    /\ parses' = AfterLoadParses(datasets, disk, d)
    /\ result' = IF LoadOutcome(datasets, disk, d) = "ok"
                 THEN [Result("load_dataset", d, "ok") EXCEPT
                          !.data = datasets'[d].data]
                 ELSE Raised("load_dataset", d)
    /\ UNCHANGED <<disk, vvars>>

\* lines 107-155
GetDatasetStats(d) ==
    /\ datasets' = AfterLoad(datasets, disk, d)
    /\ parses' = AfterLoadParses(datasets, disk, d)
    /\ result' = IF LoadOutcome(datasets, disk, d) = "ok"
                 THEN [Result("get_dataset_stats", d, "ok") EXCEPT
                          !.stats = Stats(datasets'[d].data)]
                 ELSE Raised("get_dataset_stats", d)
    /\ UNCHANGED <<disk, vvars>>

\* lines 157-185
FilterImagesByContext(d, filters) ==
    /\ datasets' = AfterLoad(datasets, disk, d)
    /\ parses' = AfterLoadParses(datasets, disk, d)
    /\ result' = IF LoadOutcome(datasets, disk, d) = "ok"
                 THEN [Result("filter_images_by_context", d, "ok") EXCEPT
                          !.context_filters = filters,
                          !.images = SelectSeq(datasets'[d].data.images,
                                        LAMBDA img : ContextMatch(img, filters))]
                 ELSE [Raised("filter_images_by_context", d) EXCEPT
                          !.context_filters = filters]
    /\ UNCHANGED <<disk, vvars>>

\* lines 187-206
GetImagesWithLabels(d, labels) ==
    /\ datasets' = AfterLoad(datasets, disk, d)
    /\ parses' = AfterLoadParses(datasets, disk, d)
    /\ result' = IF LoadOutcome(datasets, disk, d) = "ok"
                 THEN [Result("get_images_with_labels", d, "ok") EXCEPT
                          !.labels = labels,
                          !.images = SelectSeq(datasets'[d].data.images,
                                        LAMBDA img : LabelMatch(img, labels))]
                 ELSE [Raised("get_images_with_labels", d) EXCEPT
                          !.labels = labels]
    /\ UNCHANGED <<disk, vvars>>

\* Another process rewrites a dataset's coco.json.
RewriteFile(d, file) ==
    /\ d \in DOMAIN disk
    /\ disk[d] # file
    /\ disk' = [disk EXCEPT ![d] = file]
    /\ UNCHANGED <<datasets, parses, result, vvars>>

----------------------------------------------------------------------------
(* Specifications *)

\* The catalog at rest while the validator runs, and the reverse.
CIdle == CInit(SmallRoot, {File(<<>>)})
VIdle == VStart(<<>>, <<>>, PyNone)

\* The validator, over every input.
Init == VInit /\ CIdle
Next ==
    \/ BuildIndex
    \/ SliceAnnotations
    \/ ProcessAnnotation
    \/ WriteOutputs
Spec == Init /\ [][Next]_vars

\* The catalog over its lifetime, its annotation files being rewritten.
CatalogInit == CInit(RootEntries, Rewrites) /\ VIdle
CatalogNext ==
    \/ \E d \in DatasetArgs : LoadDataset(d)
    \/ \E d \in DatasetArgs : GetDatasetStats(d)
    \/ \E d \in DatasetArgs, filters \in ContextFilters :
          FilterImagesByContext(d, filters)
    \/ \E d \in DatasetArgs, labels \in LabelLists :
          GetImagesWithLabels(d, labels)
    \/ \E d \in DatasetArgs, file \in Rewrites : RewriteFile(d, file)
CatalogSpec == CatalogInit /\ [][CatalogNext]_vars

\* The catalog's queries, over the collections of at most MaxImages images.
QueryInit ==
    /\ \E images \in ImageSeqs(MaxImages) : CInit(SmallRoot, {File(images)})
    /\ VIdle
QueryNext ==
    \/ \E d \in DatasetArgs : LoadDataset(d)
    \/ \E d \in DatasetArgs : GetDatasetStats(d)
    \/ \E d \in DatasetArgs, filters \in ContextFilters :
          FilterImagesByContext(d, filters)
    \/ \E d \in DatasetArgs, labels \in LabelLists :
          GetImagesWithLabels(d, labels)
QuerySpec == QueryInit /\ [][QueryNext]_vars

----------------------------------------------------------------------------
(* Properties of the validator (specification Spec)                        *)

Min(a, b) == IF a <= b THEN a ELSE b

\* The annotations a run is to process: all of them, or the first N of
\* them when a cap N is configured.
ProcessedRefs ==
    IF subset_limit.t = "num" /\ subset_limit.n > 0
    THEN 1..Min(subset_limit.n, Len(coco_json.annotations))
    ELSE 1..Len(coco_json.annotations)

\* The image record an id resolves to is the last one carrying that id.
Resolves(id, j) ==
    /\ j \in DOMAIN coco_json.images
    /\ coco_json.images[j].id = id
    /\ \A m \in DOMAIN coco_json.images :
          coco_json.images[m].id = id => m <= j

Indexed(a) == \E j \in DOMAIN coco_json.images : Resolves(a.image_id, j)
LacksFileName(a) ==
    \E j \in DOMAIN coco_json.images :
        Resolves(a.image_id, j) /\ ~coco_json.images[j].has_file_name
ImageExists(a) ==
    \E j \in DOMAIN coco_json.images :
        /\ Resolves(a.image_id, j)
        /\ coco_json.images[j].has_file_name
        /\ coco_json.images[j].file_name \in ExistingFiles

\* bbox is a list of exactly four numbers.
FourNumbers(a) ==
    /\ a.has_bbox
    /\ a.bbox.t = "list"
    /\ Len(a.bbox.l) = 4
    /\ \A k \in 1..4 : a.bbox.l[k].t = "num"

FourValues(a) == a.has_bbox /\ a.bbox.t = "list" /\ Len(a.bbox.l) = 4
NumLeq(c, n) == c.t = "num" /\ c.n <= n
NumLt(c, n)  == c.t = "num" /\ c.n < n

\* The rules of the validator, by their rank in the precedence order.
Fails(a, rule) ==
    CASE rule = 1 -> ~ImageExists(a)
      [] rule = 2 -> ~FourNumbers(a)
      [] rule = 3 -> FourValues(a) /\ (NumLeq(a.bbox.l[3], 0) \/ NumLeq(a.bbox.l[4], 0))
      [] rule = 4 -> FourValues(a) /\ (NumLt(a.bbox.l[1], 0) \/ NumLt(a.bbox.l[2], 0))

ReasonOf(rule) ==
    CASE rule = 1 -> "missing image"
      [] rule = 2 -> "missing bbox"
      [] rule = 3 -> "zero/negative width or height"
      [] rule = 4 -> "negative x or y"

FailedRules(a) == {rule \in 1..4 : Fails(a, rule)}
FirstFailed(a) == CHOOSE rule \in FailedRules(a) : \A q \in FailedRules(a) : rule <= q

Dropped(r, reason) ==
    /\ \E k \in DOMAIN dropped_annotations : dropped_annotations[k] = r
    /\ anns[r].drop_reason = reason

Increasing(s) == \A j, k \in DOMAIN s : j < k => s[j] < s[k]

\* An annotation the claim C2 is about.
WellFormed(a) ==
    /\ ImageExists(a)
    /\ FourNumbers(a)
    /\ a.bbox.l[3].n > 0 /\ a.bbox.l[4].n > 0
    /\ a.bbox.l[1].n >= 0 /\ a.bbox.l[2].n >= 0

\* C1: in the result of a run, every processed annotation that fails more
\* than one rule is dropped with the reason of the first rule it fails, in
\* the order missing image, missing bbox, zero/negative width or height,
\* negative x or y.
C1_FirstRuleRecorded ==
    pc = "done" =>
        \A r \in ProcessedRefs :
            Cardinality(FailedRules(coco_json.annotations[r])) > 1 =>
                Dropped(r, ReasonOf(FirstFailed(coco_json.annotations[r])))

\* C2: once the run has ended, every well-formed processed annotation is in
\* the cleaned collection exactly as it was read, and the cleaned
\* annotations are in input order.
C2_WellFormedKept ==
    pc \in {"done", "error"} =>
        /\ \A r \in ProcessedRefs :
              WellFormed(coco_json.annotations[r]) =>
                  \E k \in DOMAIN output_json.annotations :
                      output_json.annotations[k] = coco_json.annotations[r]
        /\ \A j, k \in DOMAIN output_json.annotations :
              j < k => output_json.annotations[j].id < output_json.annotations[k].id

\* C4: an annotation whose image record has no file_name key is dropped as
\* "missing image", and the run is not aborted by it.
C4_NoFileNameIsMissingImage ==
    /\ error # "KeyError"
    /\ pc = "done" =>
          \A r \in ProcessedRefs :
              LacksFileName(coco_json.annotations[r]) =>
                  Dropped(r, "missing image")

\* C5: an annotation whose image exists and whose bbox is absent, null or
\* not a sequence of exactly four numbers is dropped as "missing bbox", and
\* the run is not aborted by it.
C5_MalformedBBoxIsMissingBBox ==
    /\ error # "TypeError"
    /\ pc = "done" =>
          \A r \in ProcessedRefs :
              (/\ ImageExists(coco_json.annotations[r])
               /\ ~FourNumbers(coco_json.annotations[r])) =>
                  Dropped(r, "missing bbox")

\* C10: once the run has ended, the processed annotations (all, or the
\* first N under a cap N) are split between clean_annotations and
\* dropped_annotations: no annotation is in both, every processed one is in
\* one of them, each list is in input order, every dropped record carries
\* one of the four reasons, and images and categories are as they were read.
C10_Partition ==
    pc \in {"done", "error"} =>
        /\ Range(clean_annotations) \cap Range(dropped_annotations) = {}
        /\ Range(clean_annotations) \cup Range(dropped_annotations) = ProcessedRefs
        /\ Len(clean_annotations) + Len(dropped_annotations)
              = Cardinality(ProcessedRefs)
        /\ Increasing(clean_annotations)
        /\ Increasing(dropped_annotations)
        /\ \A k \in DOMAIN dropped_annotations :
              anns[dropped_annotations[k]].drop_reason \in Reasons
        /\ data.images = coco_json.images
        /\ data.categories = coco_json.categories

\* What holds of the runs that reach line 64: C2 and C10 restricted to them.
CompletedRuns ==
    pc = "done" =>
        /\ \A r \in ProcessedRefs :
              WellFormed(coco_json.annotations[r]) =>
                  \E k \in DOMAIN output_json.annotations :
                      output_json.annotations[k] = coco_json.annotations[r]
        /\ Range(clean_annotations) \cap Range(dropped_annotations) = {}
        /\ Range(clean_annotations) \cup Range(dropped_annotations) = ProcessedRefs
        /\ Increasing(clean_annotations)
        /\ Increasing(dropped_annotations)
        /\ \A k \in DOMAIN dropped_csv : dropped_csv[k].drop_reason \in Reasons
        /\ output_json.images = coco_json.images
        /\ output_json.categories = coco_json.categories

----------------------------------------------------------------------------
(* Properties of the catalog's queries (specification QuerySpec)           *)

QueryOk(op) == result.op = op /\ result.kind = "ok"

\* The images of the collection the last call read.
Queried == datasets[result.dataset_id].data.images

Labels == {"cup", "table", "bottle"}

Frequency(label) ==
    IF label \in DOMAIN result.stats.label_distribution
    THEN result.stats.label_distribution[label]
    ELSE 0

\* C3: in the result of get_dataset_stats, the frequency of a label is the
\* number of images whose labels contain it at least once.
C3_LabelFrequency ==
    QueryOk("get_dataset_stats") =>
        \A label \in Labels :
            Frequency(label) =
                Cardinality({k \in DOMAIN Queried :
                                \E j \in DOMAIN GetLabels(Queried[k]) :
                                    GetLabels(Queried[k])[j] = label})

\* An image passes a context filter when, under every filtered category, it
\* has that category and one of its values is among the acceptable ones.
Passes(img, filters) ==
    \A ct \in DOMAIN filters :
        /\ img.has_contexts
        /\ ct \in DOMAIN img.contexts
        /\ Range(img.contexts[ct]) \cap Range(filters[ct]) # {}

\* C6: filter_images_by_context returns, in collection order, exactly the
\* images that have, under every filtered category, one of the acceptable
\* values; an image lacking a filtered category is left out, and the empty
\* filter returns every image.
C6_FilterByContext ==
    QueryOk("filter_images_by_context") =>
        /\ result.images =
              SelectSeq(Queried, LAMBDA img : Passes(img, result.context_filters))
        /\ \A k \in DOMAIN result.images, ct \in DOMAIN result.context_filters :
              ct \in DOMAIN GetContexts(result.images[k])
        /\ DOMAIN result.context_filters = {} => result.images = Queried

\* A filter on two categories kept some images and left out others, one of
\* them an image matching only one of the two categories.
C6_Witness ==
    /\ QueryOk("filter_images_by_context")
    /\ Cardinality(DOMAIN result.context_filters) = 2
    /\ Len(result.images) = 1
    /\ Len(Queried) = 2
    /\ \E k \in DOMAIN Queried, ct \in DOMAIN result.context_filters :
          /\ Queried[k] # result.images[1]
          /\ Range(GetValues(GetContexts(Queried[k]), ct))
                \cap Range(result.context_filters[ct]) # {}

\* The images carrying every label of a set.
Carrying(images, wanted) ==
    SelectSeq(images, LAMBDA img :
        \A label \in wanted :
            \E j \in DOMAIN GetLabels(img) : GetLabels(img)[j] = label)

\* C7: get_images_with_labels returns an image if and only if every
\* requested label is among the image's labels; the result depends only on
\* the set of requested labels, the empty request returns every image, and
\* an image without labels matches the empty request alone.
C7_FilterByLabels ==
    QueryOk("get_images_with_labels") =>
        /\ result.images = Carrying(Queried, Range(result.labels))
        /\ result.labels = <<>> => result.images = Queried
        /\ result.labels # <<>> =>
              \A k \in DOMAIN result.images : result.images[k].has_labels

\* A request of two labels kept an image and left out one carrying only one
\* of the two.
C7_Witness ==
    /\ QueryOk("get_images_with_labels")
    /\ Cardinality(Range(result.labels)) = 2
    /\ Len(result.images) = 1
    /\ \E k \in DOMAIN Queried :
          /\ Queried[k] # result.images[1]
          /\ Range(GetLabels(Queried[k])) \cap Range(result.labels) # {}

----------------------------------------------------------------------------
(* Properties of the catalog's lifetime (specification CatalogSpec)        *)

C8_Start ==
    \A d \in DOMAIN datasets : ~datasets[d].loaded /\ datasets[d].data = NoData

C8_State ==
    \A d \in DOMAIN datasets :
        /\ parses[d] <= 1
        /\ ~datasets[d].loaded => datasets[d].data = NoData /\ parses[d] = 0
        /\ datasets[d].loaded => datasets[d].data.present /\ parses[d] = 1
        /\ (result.kind = "ok" /\ result.dataset_id = d) =>
              /\ datasets[d].loaded
              /\ result.op = "load_dataset" => result.data = datasets[d].data

C8_Step ==
    \A d \in DOMAIN datasets :
        datasets[d].loaded =>
            /\ datasets'[d] = datasets[d]
            /\ parses'[d] = parses[d]
            /\ (result' # result /\ result'.dataset_id = d) =>
                  /\ result'.kind = "ok"
                  /\ result'.op = "load_dataset" => result'.data = datasets[d].data

C9_State ==
    /\ (result.op # "init" /\ result.dataset_id \notin DOMAIN datasets) =>
          /\ result.kind = "ValueError"
          /\ result.available = DOMAIN datasets
    /\ result.kind = "ValueError" => result.dataset_id \notin DOMAIN datasets

C9_Step ==
    /\ DOMAIN datasets' = DOMAIN datasets
    /\ (result' # result /\ result'.kind = "ValueError") =>
          datasets' = datasets /\ parses' = parses

\* C9: a call naming a dataset that was not discovered raises ValueError
\* with the discovered identifiers in it, adds no entry, and changes no
\* entry's flag or data.
C9_UnknownDataset == []C9_State /\ [][C9_Step]_vars

\* A filter call on a hidden directory's name was refused while ds1 was
\* loaded and ds2 was not.
C9_Witness ==
    /\ result.op = "get_images_with_labels"
    /\ result.kind = "ValueError"
    /\ result.dataset_id = ".cache"
    /\ result.available = {"ds1", "ds2"}
    /\ datasets["ds1"].loaded
    /\ ~datasets["ds2"].loaded

============================================================================
